---- MODULE Spec2Model ----
(***************************************************************************)
(* Model of the BibTeX fetcher (src/conference/bibtex_fetcher.py and its   *)
(* journal twin src/journal/bibtex_fetcher.py, which differ only in        *)
(* default file names, log level and local variable names).                *)
(*                                                                         *)
(* A string is a sequence of one-character strings, so that strip() is a   *)
(* real operation.  A CSV file on disk is a record [exists, lines]; lines  *)
(* is the sequence of its CSV lines, the first being the header (a         *)
(* sequence of column names) and the others sequences of cells.  Every     *)
(* data line has as many cells as the header (well-formed CSV).            *)
(* A row as csv.DictReader yields it is a function from column names to    *)
(* strings.                                                                *)
(***************************************************************************)
EXTENDS Integers, Sequences, FiniteSets, TLC

\* ---------------------------------------------------------------- bounds
MaxRows == 2
MaxRuns == 2

\* ------------------------------------------------------------------- state
VARIABLES
    inputfile,       \* the input CSV on disk
    outputfile,      \* the output CSV on disk
    buffer,          \* lines written to outfile and not yet flushed
    pc,              \* where the process is
    processed_data,  \* the mapping load_existing_data returned
    input_rows,      \* list(reader)
    fieldnames,      \* the output header
    idx,             \* 1-based position of the for loop in input_rows
    total_entries,   \* print_statistics' first count
    success_entries, \* print_statistics' second count
    warned,          \* print_statistics logged the missing-input warning
    runs,            \* history: number of runs started
    prior,           \* history: outputfile when the current run started
    prevDone,        \* history: the previous run ran to completion
    calls,           \* history: the fetch calls of the current run
    inflight,        \* history: row being processed when the run was cut, or 0
    seen,            \* history: what fetch_bibtex returned per URL
    det,             \* history: every fetch so far returned real text, the same per URL
    error            \* history: the exception that ended the run, or "none"

\* --------------------------------------------------------------- strings
NotAvailable == <<"N","o","t"," ","A","v","a","i","l","a","b","l","e">>
NoURL == <<"N","o"," ","U","R","L">>
Sentinels == {NotAvailable, NoURL}

RECURSIVE lstrip(_)
lstrip(s) == IF s # <<>> /\ Head(s) = " " THEN lstrip(Tail(s)) ELSE s

RECURSIVE rstrip(_)
rstrip(s) ==
    IF s # <<>> /\ s[Len(s)] = " " THEN rstrip(SubSeq(s, 1, Len(s) - 1)) ELSE s

\* str.strip()
strip(s) == rstrip(lstrip(s))

\* truthiness of a str: the empty string is falsy
truthy(s) == s # <<>>

\* mutant: only a blank value is taken for missing, the sentinels pass
is_real_nonblank(x) == truthy(x)

\* `x and x not in ("Not Available", "No URL")` for an already stripped x
is_real(x) == truthy(x) /\ x \notin Sentinels

\* ------------------------------------------------------------ csv module
NoFile == [exists |-> FALSE, lines |-> <<>>]

\* dict.get(col, default)
Get(row, col, default) == IF col \in DOMAIN row THEN row[col] ELSE default

\* row[col] = v
SetField(row, col, v) ==
    [c \in (DOMAIN row) \cup {col} |-> IF c = col THEN v ELSE row[c]]

\* csv.DictReader: fieldnames, <<>> standing for None (empty file)
reader_fieldnames(lines) == IF lines = <<>> THEN <<>> ELSE lines[1]

\* one data line zipped with the header
DictRow(hdr, line) ==
    [c \in {hdr[k] : k \in 1..Len(hdr)} |->
        line[CHOOSE k \in 1..Len(hdr) : hdr[k] = c]]

\* csv.DictReader: the rows after the header, in file order
reader_rows(lines) ==
    IF lines = <<>> THEN <<>>
    ELSE [k \in 1..(Len(lines) - 1) |-> DictRow(lines[1], lines[k + 1])]

\* csv.DictWriter.writerow: the cells in fieldnames order, restval ""
writerow(fields, row) == [k \in 1..Len(fields) |-> Get(row, fields[k], <<>>)]

\* ------------------------------------------------------ load_existing_data
EmptyMap == [k \in {} |-> <<>>]

\* existing_data[key] = row
store(existing, key, row) ==
    [k \in (DOMAIN existing) \cup {key} |-> IF k = key THEN row ELSE existing[k]]

\* mutant: the key is stored as it stands in the file, not trimmed
load_step_rawkey(existing, row, key_field) ==
    LET key == Get(row, key_field, <<>>)
    IN IF truthy(strip(key)) THEN store(existing, key, row) ELSE existing

\* mutant: the first record of a key is kept, later ones are dropped
load_step_first(existing, row, key_field) ==
    LET key == strip(Get(row, key_field, <<>>))
    IN IF truthy(key) /\ key \notin DOMAIN existing
       THEN store(existing, key, row) ELSE existing

\* the loop body of load_existing_data
load_step(existing, row, key_field) ==
    LET key == strip(Get(row, key_field, <<>>))
    IN IF truthy(key) THEN store(existing, key, row) ELSE existing

RECURSIVE load_loop(_, _, _)
load_loop(existing, rows, key_field) ==
    IF rows = <<>> THEN existing
    ELSE load_loop(load_step(existing, Head(rows), key_field), Tail(rows), key_field)

\* mutant: the prior output is not loaded, the map is always empty
load_existing_data_empty(file, key_field) == EmptyMap

\* lines 41-54
load_existing_data(file, key_field) ==
    IF file.exists THEN load_loop(EmptyMap, reader_rows(file.lines), key_field)
    ELSE EmptyMap

\* -------------------------------------------------------- print_statistics
\* lines 61, 65-66: logger.warning is called when the input does not exist
input_missing(file) == ~file.exists

count_total(file) == IF file.exists THEN Len(reader_rows(file.lines)) ELSE 0

\* mutant: the sentinels are counted as fetched data
row_is_success_nonblank(row) == truthy(strip(Get(row, "bibtex_data", <<>>)))

\* the test of lines 73-74 on one row
row_is_success(row) == is_real(strip(Get(row, "bibtex_data", <<>>)))

RECURSIVE success_loop(_, _)
success_loop(n, rows) ==
    IF rows = <<>> THEN n
    ELSE success_loop(IF row_is_success(Head(rows)) THEN n + 1 ELSE n, Tail(rows))

count_success(file) ==
    IF file.exists THEN success_loop(0, reader_rows(file.lines)) ELSE 0

\* ------------------------------------------------------------ fetch_bibtex
\* What the network can answer for a URL: a request error (connection
\* error, timeout, or a non-success status raised by raise_for_status),
\* a page without the bibtex-section div, a page with the div but no <pre>,
\* or a page with the div and a <pre> holding some text.
PreTexts == {<<" ">>, <<" ", "x">>, <<"y">>}
Pages ==
    {[kind |-> "error", text |-> <<>>],
     [kind |-> "nodiv", text |-> <<>>],
     [kind |-> "nopre", text |-> <<>>]}
    \cup {[kind |-> "pre", text |-> t] : t \in PreTexts}

None == [tag |-> "None", val |-> <<>>]
Raised == [tag |-> "raise", val |-> <<>>]
Str(s) == [tag |-> "str", val |-> s]

\* The value fetch_bibtex returns, or Raised when an exception leaves it:
\* only requests.exceptions.RequestException is caught, so the
\* AttributeError of None.text (div present, find("pre") is None) escapes.
fetch_bibtex(page) ==
    CASE page.kind = "error" -> None
      [] page.kind = "nodiv" -> None
      [] page.kind = "nopre" -> Raised
      [] page.kind = "pre" -> Str(strip(page.text))

\* ------------------------------------------------------------- process_csv
\* mutant: bibtex_data is appended even when the input already has it
out_fieldnames_append(lines) == Append(reader_fieldnames(lines), "bibtex_data")

\* lines 90-92: the output header
out_fieldnames(lines) ==
    LET names == reader_fieldnames(lines)
    IN IF \E k \in 1..Len(names) : names[k] = "bibtex_data"
       THEN names ELSE Append(names, "bibtex_data")

\* mutants: the title, the URL are used untrimmed
row_title_raw(row) == Get(row, "title", <<>>)
row_url_raw(row) == Get(row, "bibtex_url", <<>>)

\* lines 99-100
row_title(row) == strip(Get(row, "title", <<>>))
row_url(row) == strip(Get(row, "bibtex_url", <<>>))

\* line 104: existing_bibtex
cached_bibtex(processed, title) == strip(Get(processed[title], "bibtex_data", <<>>))

\* mutant: nothing is taken from the prior output, every row is fetched again
reusable_never(processed, title) == FALSE

\* lines 103-105: the row is answered from the prior output
reusable(processed, title) ==
    /\ title \in DOMAIN processed
    /\ is_real(cached_bibtex(processed, title))

\* line 112: `if bibtex_url:`
has_url(url) == truthy(url)

\* mutant: the fetch result is written as it is, no "Not Available"
fetched_value_raw(result) == result.val

\* line 114: bibtex_data if bibtex_data else "Not Available"
fetched_value(result) ==
    IF result.tag = "str" /\ truthy(result.val) THEN result.val ELSE NotAvailable

\* ------------------------------------------------------------------ inputs
Titles == {<<>>, <<"a">>, <<" ", "a">>, <<"b">>}
Urls == {<<>>, <<" ">>, <<"u">>, <<"v">>}
OldData == {<<"o">>}
Headers ==
    {<<"title", "bibtex_url">>,
     <<"title", "bibtex_url", "bibtex_data">>,
     <<"bibtex_url">>}

CellValues(col) ==
    CASE col = "title" -> Titles
      [] col = "bibtex_url" -> Urls
      [] col = "bibtex_data" -> OldData

LinesFor(hdr) ==
    {l \in [1..Len(hdr) -> Titles \cup Urls \cup OldData] :
        \A k \in 1..Len(hdr) : l[k] \in CellValues(hdr[k])}

FilesWith(hdr) ==
    {[exists |-> TRUE, lines |-> <<hdr>> \o body] :
        body \in UNION {[1..n -> LinesFor(hdr)] : n \in 0..MaxRows}}

InputFiles ==
    {NoFile, [exists |-> TRUE, lines |-> <<>>]}
    \cup UNION {FilesWith(h) : h \in Headers}

vars == <<inputfile, outputfile, buffer, pc, processed_data, input_rows,
          fieldnames, idx, total_entries, success_entries, runs, prior,
          prevDone, calls, inflight, seen, det, warned, error>>

fileVars == <<inputfile, outputfile, buffer>>
runVars == <<processed_data, input_rows, fieldnames, idx>>
statVars == <<total_entries, success_entries, warned>>
histVars == <<runs, prior, prevDone, calls, inflight, seen, det, error>>

Pending == [kind |-> "pending", text |-> <<>>]
Running == {"start", "load", "read", "open", "header", "loop", "fetching"}
Opened == {"header", "loop", "fetching"}
Ended == {"done", "crashed", "killed"}

Init ==
    /\ inputfile \in InputFiles
    /\ outputfile = NoFile
    /\ buffer = <<>>
    /\ pc = "start"
    /\ processed_data = EmptyMap
    /\ input_rows = <<>>
    /\ fieldnames = <<>>
    /\ idx = 1
    /\ total_entries = 0
    /\ success_entries = 0
    /\ runs = 1
    /\ prior = NoFile
    /\ prevDone = FALSE
    /\ calls = <<>>
    /\ inflight = 0
    /\ seen = EmptyMap
    /\ det = TRUE
    /\ warned = FALSE
    /\ error = "none"

\* outfile.flush(), and the flush close() does: the buffered lines reach the disk
flushed(file, buf) == [exists |-> TRUE, lines |-> file.lines \o buf]

\* line 122
PrintStatistics ==
    /\ pc = "start"
    /\ total_entries' = count_total(inputfile)
    /\ warned' = input_missing(inputfile)
    /\ success_entries' = count_success(outputfile)
    /\ pc' = "load"
    /\ UNCHANGED <<fileVars, runVars, histVars>>

\* line 85
LoadExisting ==
    /\ pc = "load"
    /\ processed_data' = load_existing_data(outputfile, "title")
    /\ pc' = "read"
    /\ UNCHANGED <<fileVars, input_rows, fieldnames, idx, statVars, histVars>>

\* mutant: a missing input is taken for an input without rows and the run goes on
ReadInput_skip ==
    /\ pc = "read"
    /\ input_rows' = reader_rows(inputfile.lines)
    /\ fieldnames' = out_fieldnames(inputfile.lines)
    /\ pc' = "open"
    /\ UNCHANGED <<fileVars, processed_data, idx, statVars, histVars>>

\* mutant: the output file is opened (and truncated) before the input is opened
ReadInput_openfirst ==
    /\ pc = "read"
    /\ IF inputfile.exists
       THEN /\ input_rows' = reader_rows(inputfile.lines)
            /\ fieldnames' = out_fieldnames(inputfile.lines)
            /\ pc' = "open"
            /\ UNCHANGED <<outputfile, error>>
       ELSE /\ pc' = "crashed"
            /\ outputfile' = [exists |-> TRUE, lines |-> <<>>]
            /\ error' = "FileNotFoundError"
            /\ UNCHANGED <<input_rows, fieldnames>>
    /\ UNCHANGED <<inputfile, buffer, processed_data, idx, statVars, runs, prior, prevDone,
                   calls, inflight, seen, det>>

\* lines 87-92; open() of a missing input raises FileNotFoundError
ReadInput ==
    /\ pc = "read"
    /\ IF inputfile.exists
       THEN /\ input_rows' = reader_rows(inputfile.lines)
            /\ fieldnames' = out_fieldnames(inputfile.lines)
            /\ pc' = "open"
       ELSE /\ pc' = "crashed"
            /\ UNCHANGED <<input_rows, fieldnames>>
    /\ error' = IF inputfile.exists THEN error ELSE "FileNotFoundError"
    /\ UNCHANGED <<fileVars, processed_data, idx, statVars, runs, prior, prevDone,
                   calls, inflight, seen, det>>

\* line 94: mode "w" creates or truncates the file
OpenOutput ==
    /\ pc = "open"
    /\ outputfile' = [exists |-> TRUE, lines |-> <<>>]
    /\ buffer' = <<>>
    /\ pc' = "header"
    /\ UNCHANGED <<inputfile, runVars, statVars, histVars>>

\* lines 95-96: the header goes to the buffer, nothing flushes it
WriteHeader ==
    /\ pc = "header"
    /\ buffer' = Append(buffer, fieldnames)
    /\ idx' = 1
    /\ pc' = "loop"
    /\ UNCHANGED <<inputfile, outputfile, processed_data, input_rows, fieldnames,
                   statVars, histVars>>

\* mutant: the row is written and not flushed
emit_noflush(value) ==
    /\ buffer' = Append(buffer, writerow(fieldnames, SetField(input_rows[idx], "bibtex_data", value)))
    /\ outputfile' = outputfile
    /\ processed_data' = processed_data
    /\ idx' = idx + 1
    /\ pc' = "loop"

\* mutant: the record just written is also put into the map, so that later
\* rows of the same run find it
emit_caching(value) ==
    /\ outputfile' = flushed(outputfile,
           Append(buffer, writerow(fieldnames, SetField(input_rows[idx], "bibtex_data", value))))
    /\ buffer' = <<>>
    /\ processed_data' = store(processed_data, row_title(input_rows[idx]),
                               SetField(input_rows[idx], "bibtex_data", value))
    /\ idx' = idx + 1
    /\ pc' = "loop"

\* writer.writerow(row); outfile.flush() with row["bibtex_data"] = value;
\* nothing in the loop body assigns to the map
emit(value) ==
    /\ outputfile' = flushed(outputfile,
           Append(buffer, writerow(fieldnames, SetField(input_rows[idx], "bibtex_data", value))))
    /\ buffer' = <<>>
    /\ processed_data' = processed_data
    /\ idx' = idx + 1
    /\ pc' = "loop"

\* lines 103-109
ReuseCached ==
    /\ pc = "loop"
    /\ idx <= Len(input_rows)
    /\ reusable(processed_data, row_title(input_rows[idx]))
    /\ emit(cached_bibtex(processed_data, row_title(input_rows[idx])))
    /\ UNCHANGED <<inputfile, input_rows, fieldnames, statVars, histVars>>

\* lines 115-119
WriteNoUrl ==
    /\ pc = "loop"
    /\ idx <= Len(input_rows)
    /\ ~reusable(processed_data, row_title(input_rows[idx]))
    /\ ~has_url(row_url(input_rows[idx]))
    /\ emit(NoURL)
    /\ UNCHANGED <<inputfile, input_rows, fieldnames, statVars, histVars>>

\* lines 112-113: fetch_bibtex is called and blocks on the network
FetchCall ==
    /\ pc = "loop"
    /\ idx <= Len(input_rows)
    /\ ~reusable(processed_data, row_title(input_rows[idx]))
    /\ has_url(row_url(input_rows[idx]))
    /\ calls' = Append(calls,
           [row |-> idx, url |-> row_url(input_rows[idx]), page |-> Pending])
    /\ pc' = "fetching"
    /\ UNCHANGED <<fileVars, runVars, statVars, runs, prior, prevDone, inflight, seen,
                   det, error>>

\* history of the fetch results
note(url, result) ==
    LET ok == /\ det
              /\ result.tag = "str"
              /\ is_real(result.val)
              /\ (url \in DOMAIN seen => seen[url] = result.val)
    IN /\ det' = ok
       /\ seen' = IF ok THEN store(seen, url, result.val) ELSE EmptyMap

\* lines 113-119: fetch_bibtex returns, the row is written and flushed
FetchReturn ==
    /\ pc = "fetching"
    /\ \E page \in Pages :
        /\ fetch_bibtex(page) # Raised
        /\ calls' = [calls EXCEPT ![Len(calls)].page = page]
        /\ note(calls[Len(calls)].url, fetch_bibtex(page))
        /\ emit(fetched_value(fetch_bibtex(page)))
    /\ UNCHANGED <<inputfile, input_rows, fieldnames, statVars,
                   runs, prior, prevDone, inflight, error>>

\* line 33 raises inside fetch_bibtex: the exception leaves process_csv, the
\* with block closes (and so flushes) outfile, the process ends with a traceback
FetchRaise ==
    /\ pc = "fetching"
    /\ \E page \in Pages :
        /\ fetch_bibtex(page) = Raised
        /\ calls' = [calls EXCEPT ![Len(calls)].page = page]
        /\ note(calls[Len(calls)].url, Raised)
    /\ outputfile' = flushed(outputfile, buffer)
    /\ buffer' = <<>>
    /\ inflight' = idx
    /\ error' = "AttributeError"
    /\ pc' = "crashed"
    /\ UNCHANGED <<inputfile, runVars, statVars, runs, prior, prevDone>>

\* the loop is over: the with block closes outfile, process_csv returns
Finish ==
    /\ pc = "loop"
    /\ idx > Len(input_rows)
    /\ outputfile' = flushed(outputfile, buffer)
    /\ buffer' = <<>>
    /\ pc' = "done"
    /\ UNCHANGED <<inputfile, runVars, statVars, histVars>>

\* the row the run is at: the one being processed, or the first one when the
\* file is open and the loop has not started
current_row == IF pc \in Opened /\ idx <= Len(input_rows) THEN idx ELSE 0

\* abrupt termination (SIGKILL, power loss): what is in the buffer is lost
Kill ==
    /\ pc \in Running
    /\ buffer' = <<>>
    /\ inflight' = current_row
    /\ pc' = "killed"
    /\ UNCHANGED <<inputfile, outputfile, runVars, statVars, runs, prior, prevDone,
                   calls, seen, det, error>>

\* KeyboardInterrupt: the exception unwinds through the with block, which
\* closes outfile if it is open
Interrupt ==
    /\ pc \in Running
    /\ IF pc \in Opened
       THEN outputfile' = flushed(outputfile, buffer)
       ELSE outputfile' = outputfile
    /\ buffer' = <<>>
    /\ inflight' = current_row
    /\ error' = "KeyboardInterrupt"
    /\ pc' = "crashed"
    /\ UNCHANGED <<inputfile, runVars, statVars, runs, prior, prevDone, calls, seen, det>>

\* the program is started again on the same files
Restart ==
    /\ pc \in Ended
    /\ runs < MaxRuns
    /\ runs' = runs + 1
    /\ prior' = outputfile
    /\ prevDone' = (pc = "done")
    /\ calls' = <<>>
    /\ inflight' = 0
    /\ pc' = "start"
    /\ processed_data' = EmptyMap
    /\ input_rows' = <<>>
    /\ fieldnames' = <<>>
    /\ idx' = 1
    /\ total_entries' = 0
    /\ success_entries' = 0
    /\ warned' = FALSE
    /\ error' = "none"
    /\ UNCHANGED <<fileVars, seen, det>>

\* between two runs the input file is removed (or the program is started
\* with a path that does not exist)
RemoveInput ==
    /\ pc = "start"
    /\ inputfile.exists
    /\ inputfile' = NoFile
    /\ UNCHANGED <<outputfile, buffer, pc, runVars, statVars, histVars>>

Next ==
    \/ PrintStatistics
    \/ LoadExisting
    \/ ReadInput
    \/ OpenOutput
    \/ WriteHeader
    \/ ReuseCached
    \/ WriteNoUrl
    \/ FetchCall
    \/ FetchReturn
    \/ FetchRaise
    \/ Finish
    \/ Kill
    \/ Interrupt
    \/ Restart
    \/ RemoveInput

Spec == Init /\ [][Next]_vars

\* ================================================================ claims
\* helpers of the properties
OutRows(file) == reader_rows(file.lines)
DataOf(row) == Get(row, "bibtex_data", <<>>)
IsRealRow(row) == LET d == strip(DataOf(row)) IN d # <<>> /\ d # NotAvailable /\ d # NoURL
RealValues(file) == {DataOf(OutRows(file)[k]) : k \in {j \in 1..Len(OutRows(file)) : IsRealRow(OutRows(file)[j])}}
InRows == reader_rows(inputfile.lines)
TitleKey(row) == strip(Get(row, "title", <<>>))
UrlKey(row) == strip(Get(row, "bibtex_url", <<>>))
\* rows of the current run that are written and flushed
Written == IF pc \in Opened \cup Ended /\ input_rows # <<>> THEN 1..(idx - 1) ELSE {}
CalledRows == {calls[k].row : k \in 1..Len(calls)}
Answered == {k \in 1..Len(calls) : calls[k].page # Pending}

\* the prior rows that do not belong to the record in flight when the run was cut
PriorKept ==
    {k \in 1..Len(OutRows(prior)) :
        /\ IsRealRow(OutRows(prior)[k])
        /\ k # inflight
        /\ (inflight # 0 => TitleKey(OutRows(prior)[k]) # TitleKey(InRows[inflight]))}

\* the run was killed while a fetch was blocking: the record in flight is the
\* one being fetched
CutInFetch == pc = "killed" /\ calls # <<>> /\ calls[Len(calls)].page = Pending

\* C1 (as claimed, at the cuts that fall during a fetch): when a run is cut,
\* every real bibtex_data value that was in the output file when the run
\* started, or that an earlier fetch of the run returned, is still in the
\* output file, the value of the one record in flight excepted.
C1_LosesAtMostInFlight ==
    CutInFetch =>
        /\ \A k \in PriorKept : DataOf(OutRows(prior)[k]) \in RealValues(outputfile)
        /\ \A k \in Answered :
              IsRealRow([bibtex_data |-> fetched_value(fetch_bibtex(calls[k].page))])
                  => fetched_value(fetch_bibtex(calls[k].page)) \in RealValues(outputfile)

\* the prior output holds real data for input rows 1..k and nothing else
PriorHoldsFirst(k) ==
    /\ prior.exists
    /\ k <= Len(InRows)
    /\ Len(prior.lines) = k + 1
    /\ \A j \in 1..k :
          /\ IsRealRow(OutRows(prior)[j])
          /\ \A c \in (DOMAIN InRows[j]) \ {"bibtex_data"} :
                Get(OutRows(prior)[j], c, <<"?">>) = InRows[j][c]

\* a written row whose title has a reusable cached entry carries the cached
\* value and caused no fetch
C2_CachedRowsReused ==
    \A j \in Written :
        LET t == TitleKey(input_rows[j])
        IN (/\ t \in DOMAIN processed_data
            /\ IsRealRow([bibtex_data |-> DataOf(processed_data[t])]))
           => /\ outputfile.lines[j + 1][Len(fieldnames)] = strip(DataOf(processed_data[t]))
              /\ j \notin CalledRows

\* C2 (as claimed): cached rows are reused without a fetch, and when the prior
\* output holds real data for rows 1..k and no rows for k+1..n, the run fetches
\* only rows among k+1..n.
C2_ResumeFetchesOnlyMissing ==
    /\ C2_CachedRowsReused
    /\ \A k \in 0..Len(InRows) : PriorHoldsFirst(k) => \A j \in CalledRows : j > k

\* C2 (amended): cached rows are reused without a fetch, and when the prior
\* output holds real data for rows 1..k, whose trimmed titles are all
\* non-blank, and no rows for k+1..n, the run fetches only rows among k+1..n.
C2_ResumeFetchesOnlyMissingKeyed ==
    /\ C2_CachedRowsReused
    /\ \A k \in 0..Len(InRows) :
          (PriorHoldsFirst(k) /\ \A j \in 1..k : TitleKey(InRows[j]) # <<>>)
              => \A j \in CalledRows : j > k

\* a resumed run that reused row 1 from the prior output and fetched row 2
C2_Witness ==
    /\ pc = "done"
    /\ PriorHoldsFirst(1)
    /\ TitleKey(InRows[1]) # <<>>
    /\ Len(InRows) = 2
    /\ CalledRows = {2}
    /\ outputfile.lines[2] = prior.lines[2]

\* the trimmed titles of the input are non-blank and pairwise distinct
TitlesDistinctNonBlank ==
    /\ \A j \in 1..Len(InRows) : TitleKey(InRows[j]) # <<>>
    /\ \A j, k \in 1..Len(InRows) : TitleKey(InRows[j]) = TitleKey(InRows[k]) => j = k

\* two runs in a row ran to completion, and every fetch of the behaviour
\* returned real text, the same text for the same URL
TwiceDeterministic == pc = "done" /\ prevDone /\ det

\* C3 (as claimed): for every input, the second of two completed runs with a
\* deterministic always-successful fetch leaves the output file as the first
\* run left it and issues no fetch.
C3_Idempotent == TwiceDeterministic => (outputfile = prior /\ calls = <<>>)

\* C3 (amended): the same, for inputs whose trimmed titles are all distinct
\* and non-blank.
C3_IdempotentKeyed ==
    (TwiceDeterministic /\ TitlesDistinctNonBlank) => (outputfile = prior /\ calls = <<>>)

\* a second completed run over two keyed rows, both fetched by the first run
C3_Witness ==
    /\ TwiceDeterministic
    /\ TitlesDistinctNonBlank
    /\ Len(InRows) = 2
    /\ DOMAIN seen = {<<"u">>, <<"v">>}
    /\ outputfile = prior
    /\ calls = <<>>

\* the fetch failed: request error, no marker div, or marker div without <pre>
FailedPage(page) == page.kind \in {"error", "nodiv", "nopre"}

\* C4 (as claimed): whatever way the fetch of a row fails, the run goes on and
\* the row is written with "Not Available".
C4_FetchFailureIsolated ==
    \A k \in Answered :
        FailedPage(calls[k].page) =>
            /\ calls[k].row \in Written
            /\ DataOf(OutRows(outputfile)[calls[k].row]) = NotAvailable

\* C5: every record written to the output file, flushed or still buffered,
\* has a non-blank bibtex_data: real text, "Not Available" or "No URL".
C5_NeverBlank ==
    /\ \A j \in 1..Len(OutRows(outputfile)) :
          strip(DataOf(OutRows(outputfile)[j])) # <<>>
    /\ \A j \in 1..Len(buffer) :
          buffer[j] = fieldnames \/ strip(buffer[j][Len(fieldnames)]) # <<>>

\* a fetch that returned the empty string was written as "Not Available"
C5_Witness ==
    \E k \in Answered :
        /\ calls[k].page = [kind |-> "pre", text |-> <<" ">>]
        /\ calls[k].row \in Written
        /\ DataOf(OutRows(outputfile)[calls[k].row]) = NotAvailable

BlankUrlRows == {j \in Written : UrlKey(input_rows[j]) = <<>>}

\* C6 (as claimed): a row whose URL is blank is written with "No URL" and is
\* not fetched, whatever the prior output file holds.
C6_BlankUrlIsNoUrl ==
    \A j \in BlankUrlRows :
        /\ DataOf(OutRows(outputfile)[j]) = NoURL
        /\ j \notin CalledRows

HasCachedReal(row) ==
    /\ TitleKey(row) \in DOMAIN processed_data
    /\ IsRealRow([bibtex_data |-> DataOf(processed_data[TitleKey(row)])])

\* C6 (amended): a row whose URL is blank is never fetched; it is written
\* with "No URL" unless its trimmed title has real cached bibtex_data, and
\* then it is written with that cached value.
C6_BlankUrlNoFetch ==
    \A j \in BlankUrlRows :
        /\ j \notin CalledRows
        /\ DataOf(OutRows(outputfile)[j]) =
              IF HasCachedReal(input_rows[j])
              THEN strip(DataOf(processed_data[TitleKey(input_rows[j])]))
              ELSE NoURL

\* a blank-URL row answered from the cache, in a run that wrote "No URL" for
\* it the first time
C6_Witness ==
    \E j \in BlankUrlRows :
        /\ HasCachedReal(input_rows[j])
        /\ DataOf(OutRows(prior)[j]) = NoURL
        /\ is_real(DataOf(OutRows(outputfile)[j]))

\* the output record of input row j carries the input's columns
CarriesInput(line, j, cols) ==
    \A c \in cols : Get(DictRow(out_fieldnames(inputfile.lines), line), c, <<"?">>) = InRows[j][c]

\* C7 (as claimed, at the points where the run blocks on a fetch and can be
\* cut): the output file on disk is the header followed by the complete
\* records of the first N input rows.
C7_FileAlwaysValid ==
    pc = "fetching" =>
        /\ outputfile.lines # <<>>
        /\ outputfile.lines[1] = out_fieldnames(inputfile.lines)
        /\ Len(outputfile.lines) - 1 <= Len(InRows)
        /\ \A j \in 1..(Len(outputfile.lines) - 1) :
              /\ Len(outputfile.lines[j + 1]) = Len(outputfile.lines[1])
              /\ CarriesInput(outputfile.lines[j + 1], j, (DOMAIN InRows[j]) \ {"bibtex_data"})

InputHeader == reader_fieldnames(inputfile.lines)
InputHasData == \E k \in 1..Len(InputHeader) : InputHeader[k] = "bibtex_data"

\* a completed run: one record per input row, in input order, under the
\* input's header with bibtex_data appended only if it was not there
CompleteOutput(cols(_)) ==
    /\ Len(outputfile.lines) = Len(InRows) + 1
    /\ outputfile.lines[1] =
          IF InputHasData THEN InputHeader ELSE InputHeader \o <<"bibtex_data">>
    /\ \A j \in 1..Len(InRows) :
          /\ Len(outputfile.lines[j + 1]) = Len(outputfile.lines[1])
          /\ CarriesInput(outputfile.lines[j + 1], j, cols(j))

AllColumns(j) == DOMAIN InRows[j]
ColumnsButData(j) == (DOMAIN InRows[j]) \ {"bibtex_data"}

\* C8 (as claimed): a completed run wrote one record per input record, in
\* input order, each carrying every input column unchanged.
C8_OneRecordPerRow == pc = "done" => CompleteOutput(AllColumns)

\* C8 (amended): the same, each record carrying every input column other
\* than bibtex_data unchanged (an input bibtex_data column is overwritten).
C8_OneRecordPerRowButData == pc = "done" => CompleteOutput(ColumnsButData)

\* a completed run over two rows of an input that already has bibtex_data
C8_Witness ==
    /\ pc = "done"
    /\ InputHasData
    /\ Len(InRows) = 2
    /\ Len(outputfile.lines) = 3

\* ------------------------------------------- the two readers on any files
\* load_existing_data and print_statistics read files the program did not
\* necessarily write: any header, padded cells, sentinels, repeated keys.
OldTitles == {<<>>, <<"a">>, <<" ", "a">>, <<"b">>}
OldCells == {<<>>, <<"x">>, <<"x", " ">>, NotAvailable, <<" ">> \o NoURL}
OldHeaders == {<<"title", "bibtex_data">>, <<"title">>, <<"bibtex_data">>}

OldLinesFor(hdr) ==
    {l \in [1..Len(hdr) -> OldTitles \cup OldCells] :
        \A k \in 1..Len(hdr) : l[k] \in (IF hdr[k] = "title" THEN OldTitles ELSE OldCells)}

OldFiles ==
    {NoFile, [exists |-> TRUE, lines |-> <<>>]}
    \cup UNION {{[exists |-> TRUE, lines |-> <<hdr>> \o body] :
                    body \in UNION {[1..n -> OldLinesFor(hdr)] : n \in 0..MaxRows}} :
                hdr \in OldHeaders}

SmallInputs == {NoFile} \cup FilesWith(<<"bibtex_url">>)

InitFiles ==
    /\ inputfile \in SmallInputs
    /\ outputfile \in OldFiles
    /\ buffer = <<>>
    /\ pc = "start"
    /\ processed_data = EmptyMap
    /\ input_rows = <<>>
    /\ fieldnames = <<>>
    /\ idx = 1
    /\ total_entries = 0
    /\ success_entries = 0
    /\ runs = 1
    /\ prior = outputfile
    /\ prevDone = FALSE
    /\ calls = <<>>
    /\ inflight = 0
    /\ seen = EmptyMap
    /\ det = TRUE
    /\ warned = FALSE
    /\ error = "none"

NextFiles ==
    \/ PrintStatistics
    \/ LoadExisting

SpecFiles == InitFiles /\ [][NextFiles]_vars

\* the records of the file whose trimmed key is k
Keyed(rows, k) == {j \in 1..Len(rows) : "title" \in DOMAIN rows[j] /\ strip(rows[j]["title"]) = k}
LastOf(S) == CHOOSE j \in S : \A i \in S : i <= j

\* C9: load_existing_data returns the empty mapping for a missing file;
\* otherwise its keys are exactly the trimmed non-blank key values of the
\* file, each mapped to the last record with that trimmed key, and records
\* without a key or with a blank key contribute nothing.
C9_LoadExisting ==
    pc = "read" =>
        LET rows == OutRows(outputfile)
        IN /\ ~outputfile.exists => DOMAIN processed_data = {}
           /\ DOMAIN processed_data =
                 {strip(rows[j]["title"]) : j \in {i \in 1..Len(rows) : "title" \in DOMAIN rows[i]}}
                     \ {<<>>}
           /\ \A k \in DOMAIN processed_data :
                 processed_data[k] = rows[LastOf(Keyed(rows, k))]

\* a file with a blank key and a key that occurs twice under different padding
C9_Witness ==
    /\ pc = "read"
    /\ Len(outputfile.lines) = 3
    /\ outputfile.lines[1] = <<"title", "bibtex_data">>
    /\ outputfile.lines[2][1] = <<"a">>
    /\ outputfile.lines[3][1] = <<" ", "a">>
    /\ outputfile.lines[2][2] # outputfile.lines[3][2]
    /\ DOMAIN processed_data = {<<"a">>}

\* C10: print_statistics reports total = number of input records (0 without
\* an input file) and success = number of output records whose trimmed
\* bibtex_data is non-blank and no sentinel (0 without an output file), and
\* leaves both files as they were.
C10_Statistics ==
    [][(pc = "start" /\ pc' = "load") =>
          /\ total_entries' =
                (IF inputfile.exists /\ inputfile.lines # <<>> THEN Len(inputfile.lines) - 1 ELSE 0)
          /\ success_entries' =
                Cardinality({j \in 1..Len(OutRows(outputfile)) : IsRealRow(OutRows(outputfile)[j])})
          /\ (~outputfile.exists => success_entries' = 0)
          /\ inputfile' = inputfile
          /\ outputfile' = outputfile]_vars

\* the counts after reading two inputs and an output with one real padded
\* value and one padded sentinel
C10_Witness ==
    /\ pc = "load"
    /\ total_entries = 2
    /\ success_entries = 1
    /\ Len(outputfile.lines) = 3
    /\ \E j \in 1..2 : DataOf(OutRows(outputfile)[j]) = <<"x", " ">>
    /\ \E j \in 1..2 : DataOf(OutRows(outputfile)[j]) = <<" ">> \o NoURL

\* the run ended by itself: it was neither killed nor interrupted
EndedByItself == pc \in {"done", "crashed"} /\ error # "KeyboardInterrupt"

IsPrefix(a, b) == Len(a) <= Len(b) /\ \A k \in 1..Len(a) : a[k] = b[k]

\* C12: within a run the rows are handled one at a time in input order: what
\* is on disk is never rewritten, each new line is the record of the next
\* input row, and when a fetch is invoked it is for a row after every row
\* fetched before, with all earlier rows written and flushed.
C12_Ordering ==
    [][/\ (pc \in Opened => IsPrefix(outputfile.lines, outputfile'.lines))
       /\ (pc \in {"loop", "fetching"} /\ pc' = "loop" /\ idx' = idx + 1) =>
              /\ Len(outputfile'.lines) = idx + 1
              /\ CarriesInput(outputfile'.lines[idx + 1], idx, (DOMAIN InRows[idx]) \ {"bibtex_data"})
       /\ (Len(calls') = Len(calls) + 1) =>
              LET r == calls'[Len(calls')].row
              IN /\ \A k \in 1..Len(calls) : calls[k].row < r
                 /\ r > 1 => (Len(outputfile.lines) = r /\ buffer = <<>>)
                 /\ outputfile' = outputfile]_vars

\* a completed run that fetched row 1 and then row 2
C12_Witness ==
    /\ pc = "done"
    /\ Len(calls) = 2
    /\ calls[1].row = 1
    /\ calls[2].row = 2
    /\ Len(outputfile.lines) = 3

\* --------------------------------------------- one run over any old output
\* The output file a run finds may come from anywhere: other inputs, an
\* edited file, blank or padded cells, no bibtex_data column.
ResumeLines == {l \in LinesFor(<<"title", "bibtex_url">>) : l[2] \in {<<>>, <<"u">>}}
ResumeInputs ==
    {[exists |-> TRUE, lines |-> <<<<"title", "bibtex_url">>>> \o body] :
        body \in UNION {[1..n -> ResumeLines] : n \in 0..MaxRows}}

InitResume ==
    /\ inputfile \in ResumeInputs
    /\ outputfile \in OldFiles
    /\ buffer = <<>>
    /\ pc = "start"
    /\ processed_data = EmptyMap
    /\ input_rows = <<>>
    /\ fieldnames = <<>>
    /\ idx = 1
    /\ total_entries = 0
    /\ success_entries = 0
    /\ runs = 1
    /\ prior = outputfile
    /\ prevDone = FALSE
    /\ calls = <<>>
    /\ inflight = 0
    /\ seen = EmptyMap
    /\ det = TRUE
    /\ warned = FALSE
    /\ error = "none"

NextResume ==
    \/ PrintStatistics
    \/ LoadExisting
    \/ ReadInput
    \/ OpenOutput
    \/ WriteHeader
    \/ ReuseCached
    \/ WriteNoUrl
    \/ FetchCall
    \/ FetchReturn
    \/ FetchRaise
    \/ Finish

SpecResume == InitResume /\ [][NextResume]_vars

\* the last record of the prior output under the trimmed title t is a
\* sentinel or blank
PriorUnresolved(t) ==
    LET rows == OutRows(prior)
    IN /\ Keyed(rows, t) # {}
       /\ t # <<>>
       /\ ~IsRealRow(rows[LastOf(Keyed(rows, t))])

\* C13: a row whose cached bibtex_data is blank, "Not Available" or "No URL"
\* is treated as unresolved: with a URL it is fetched and gets what the fetch
\* gives, without a URL it is written as "No URL".
C13_SentinelNotReused ==
    \A j \in Written :
        PriorUnresolved(TitleKey(input_rows[j])) =>
            IF UrlKey(input_rows[j]) = <<>>
            THEN /\ j \notin CalledRows
                 /\ DataOf(OutRows(outputfile)[j]) = NoURL
            ELSE \E k \in Answered :
                    /\ calls[k].row = j
                    /\ DataOf(OutRows(outputfile)[j]) =
                          (IF calls[k].page.kind = "pre" /\ strip(calls[k].page.text) # <<>>
                           THEN strip(calls[k].page.text) ELSE NotAvailable)

\* a row cached with a padded "No URL" was fetched and got real text, another
\* cached with a blank value and without URL was written as "No URL"
C13_Witness ==
    /\ pc = "done"
    /\ \E j \in Written :
          /\ PriorUnresolved(TitleKey(input_rows[j]))
          /\ DataOf(processed_data[TitleKey(input_rows[j])]) = <<" ">> \o NoURL
          /\ j \in CalledRows
          /\ DataOf(OutRows(outputfile)[j]) = <<"x">>
    /\ \E j \in Written :
          /\ PriorUnresolved(TitleKey(input_rows[j]))
          /\ DataOf(processed_data[TitleKey(input_rows[j])]) = <<>>
          /\ DataOf(OutRows(outputfile)[j]) = NoURL

\* the mapping is the one the prior output gives: its keys are the trimmed
\* non-blank titles of the prior output, each with its last record
MapIsOfPrior ==
    LET rows == OutRows(prior)
    IN /\ DOMAIN processed_data =
             {strip(rows[j]["title"]) : j \in {i \in 1..Len(rows) : "title" \in DOMAIN rows[i]}}
                 \ {<<>>}
       /\ \A k \in DOMAIN processed_data : processed_data[k] = rows[LastOf(Keyed(rows, k))]

PriorResolved(t) ==
    LET rows == OutRows(prior)
    IN /\ Keyed(rows, t) # {}
       /\ t # <<>>
       /\ IsRealRow(rows[LastOf(Keyed(rows, t))])

\* C14: once built, the Existing-Results Map is the map of the prior output
\* at every step of the run, and lookups see the prior output only: a row
\* with a URL whose title has no real entry in the prior output is fetched,
\* whatever was fetched or written earlier in the run.
C14_MapReadOnly ==
    pc \notin {"start", "load"} =>
        /\ MapIsOfPrior
        /\ \A j \in Written :
              (UrlKey(input_rows[j]) # <<>> /\ ~PriorResolved(TitleKey(input_rows[j])))
                  => j \in CalledRows

\* two rows with the same title, the first fetched real text, the second was
\* fetched all the same
C14_Witness ==
    /\ pc = "done"
    /\ Len(input_rows) = 2
    /\ TitleKey(input_rows[1]) = TitleKey(input_rows[2])
    /\ TitleKey(input_rows[1]) # <<>>
    /\ CalledRows = {1, 2}
    /\ DataOf(OutRows(outputfile)[1]) = <<"x">>
    /\ processed_data # EmptyMap

\* C15: a run that cannot open its input ends before the output file is
\* opened, so the output is what it was when the run started; and whenever
\* the output has been opened for writing (truncated), the input exists and
\* every row of it has already been read.
C15_InputFailureKeepsOutput ==
    /\ error = "FileNotFoundError" =>
          /\ pc = "crashed"
          /\ outputfile = prior
          /\ buffer = <<>>
    /\ (outputfile # prior \/ pc \in Opened) =>
          /\ inputfile.exists
          /\ input_rows = reader_rows(inputfile.lines)

\* an earlier run left results, the input then went away, and the next run
\* has failed on opening it
C15_Witness ==
    /\ error = "FileNotFoundError"
    /\ pc = "crashed"
    /\ ~inputfile.exists
    /\ prior.exists
    /\ RealValues(prior) # {}
    /\ outputfile = prior

\* the rows of the output file at the start of the run that hold real data
PriorReal == {j \in 1..Len(OutRows(prior)) : IsRealRow(OutRows(prior)[j])}

\* C16: for an input whose trimmed titles are distinct and non-blank, when a
\* run has completed, every row that held real data in the output file at
\* the start of the run is in the output file with the same title and the
\* same data, whatever the fetches of the run returned; and the success
\* count of the output file is at least the count print_statistics reported
\* at the start of the run.
C16_NoDowngrade ==
    (pc = "done" /\ TitlesDistinctNonBlank) =>
        /\ \A j \in PriorReal :
              \E k \in 1..Len(OutRows(outputfile)) :
                  /\ TitleKey(OutRows(outputfile)[k]) = TitleKey(OutRows(prior)[j])
                  /\ DataOf(OutRows(outputfile)[k]) = DataOf(OutRows(prior)[j])
        /\ count_success(outputfile) >= success_entries
        /\ success_entries = Cardinality(PriorReal)

\* a second run has completed: one row held real data before and holds the
\* same data now, the fetch of the other row failed in this run
C16_Witness ==
    /\ pc = "done"
    /\ TitlesDistinctNonBlank
    /\ Len(InRows) = 2
    /\ PriorReal # {}
    /\ success_entries = 1
    /\ \E k \in Answered : FailedPage(calls[k].page)
    /\ \E k \in 1..2 : DataOf(OutRows(outputfile)[k]) = NotAvailable
    /\ count_success(outputfile) = 1

\* ------------------------------------------------ runs repeated for ever
\* The program is started again and again on the same input, which exists
\* and has distinct non-blank trimmed titles; every run completes: none is
\* killed or interrupted, and no fetch raises out of fetch_bibtex.
LiveRows(file) == reader_rows(file.lines)
LiveInputs ==
    {f \in InputFiles :
        /\ f.exists
        /\ \A j \in 1..Len(LiveRows(f)) : TitleKey(LiveRows(f)[j]) # <<>>
        /\ \A j, k \in 1..Len(LiveRows(f)) :
              TitleKey(LiveRows(f)[j]) = TitleKey(LiveRows(f)[k]) => j = k}

InitLive ==
    /\ inputfile \in LiveInputs
    /\ outputfile = NoFile
    /\ buffer = <<>>
    /\ pc = "start"
    /\ processed_data = EmptyMap
    /\ input_rows = <<>>
    /\ fieldnames = <<>>
    /\ idx = 1
    /\ total_entries = 0
    /\ success_entries = 0
    /\ runs = 1
    /\ prior = NoFile
    /\ prevDone = FALSE
    /\ calls = <<>>
    /\ inflight = 0
    /\ seen = EmptyMap
    /\ det = TRUE
    /\ warned = FALSE
    /\ error = "none"

\* the program is started again, any number of times
RestartLive ==
    /\ pc \in Ended
    /\ prior' = outputfile
    /\ prevDone' = (pc = "done")
    /\ calls' = <<>>
    /\ inflight' = 0
    /\ pc' = "start"
    /\ processed_data' = EmptyMap
    /\ input_rows' = <<>>
    /\ fieldnames' = <<>>
    /\ idx' = 1
    /\ total_entries' = 0
    /\ success_entries' = 0
    /\ warned' = FALSE
    /\ error' = "none"
    /\ UNCHANGED <<fileVars, runs, seen, det>>

\* the fetch of url returns real text: a <pre> whose trimmed text is neither
\* blank nor a sentinel
FetchGood(url) ==
    /\ pc = "fetching"
    /\ calls[Len(calls)].url = url
    /\ FetchReturn
    /\ calls'[Len(calls')].page.kind = "pre"
    /\ is_real(strip(calls'[Len(calls')].page.text))

\* the sequential steps of one run
RunStep ==
    \/ PrintStatistics
    \/ LoadExisting
    \/ ReadInput
    \/ OpenOutput
    \/ WriteHeader
    \/ ReuseCached
    \/ WriteNoUrl
    \/ FetchCall
    \/ Finish

NextLive ==
    \/ RunStep
    \/ FetchReturn
    \/ RestartLive

\* The interpreter runs the next statement (RunStep); requests.get has a
\* timeout, so a pending fetch returns; the program is started
\* again after it ends; and a URL that is fetched again and again does
\* return real text at some fetch.
LiveUrls == {strip(u) : u \in Urls} \ {<<>>}
FairLive ==
    /\ WF_vars(RunStep)
    /\ WF_vars(FetchReturn)
    /\ WF_vars(RestartLive)
    /\ \A u \in LiveUrls : SF_vars(FetchGood(u))

SpecLive == InitLive /\ [][NextLive]_vars /\ FairLive

\* every record of the file is resolved: real data, or "No URL" for a row
\* whose trimmed URL is blank
AllResolved(file) ==
    /\ Len(OutRows(file)) = Len(InRows)
    /\ \A j \in 1..Len(OutRows(file)) :
          IF UrlKey(InRows[j]) = <<>>
          THEN DataOf(OutRows(file)[j]) = NoURL
          ELSE IsRealRow(OutRows(file)[j])

\* a run has ended that found every record resolved, fetched nothing and
\* left the output file as it found it
Converged ==
    /\ AllResolved(outputfile)
    /\ calls = <<>>
    /\ outputfile = prior

\* C17: when the runs are repeated on an input with distinct non-blank
\* trimmed titles and every URL fetched again and again returns real text at
\* some fetch, runs keep completing, and from some run on every completed
\* run ends with every row resolved (real data, or "No URL" for a blank
\* URL), has issued no fetch and has left the output file unchanged; from
\* then on no fetch is ever issued.
C17_Converges ==
    /\ []<>(pc = "done")
    /\ <>[]((pc = "done" => Converged) /\ calls = <<>>)

\* a later run over two rows with URLs has completed without a fetch and
\* without changing the file, both rows hold real data
C17_Witness ==
    /\ pc = "done"
    /\ prevDone
    /\ Len(InRows) = 2
    /\ \A j \in 1..2 : UrlKey(InRows[j]) # <<>>
    /\ Converged
    /\ ~det

====
